---- MODULE Spec2Model ----
(***************************************************************************)
(* Verification model of asymmetree:                                       *)
(*   hgt/Fitch.py               fitch, undirected_fitch,                   *)
(*                              true_transfer_edges                        *)
(*   treeevolve/EvolutionRates.py  simulate_gene_trees, assign_rates,      *)
(*                              _divergent_rates, _adjust_distances,       *)
(*                              autocorrelation_factors,                   *)
(*                              _apply_autocorrelation                     *)
(*   tools/PhyloTreeTools.py    sorted_nodes, phylo_tree_attributes,       *)
(*                              delete_and_reconnect,                      *)
(*                              delete_losses_and_contract,                *)
(*                              distance_matrix, distances_from_root,      *)
(*                              random_colored_tree                        *)
(*                                                                         *)
(* Trees are modelled by their node fields.  A node is a number 1..n, the  *)
(* root is node 1, parent[v] = 0 means "no parent" (None), and the         *)
(* children of a node are listed in increasing node number (the insertion  *)
(* order of the children list).  Floating point values are modelled by     *)
(* integers: a time stamp is an integer, the rate 1.0 is the integer 1.    *)
(***************************************************************************)
EXTENDS Integers, Sequences, FiniteSets, TLC

VARIABLES
    \* ---- the gene tree T handed to the program (caller's instance) ----
    parent,          \* node -> parent node, 0 for the root
    event,           \* node -> "S" | "D" | "L" | "H" | "" | "None"
    color,           \* node -> <<s>> (single species label) or <<p, c>> (pair)
    tstamp,          \* node -> time stamp
    transferred,     \* node -> BOOLEAN (the node's transferred flag)
    dist,            \* node -> dist of the caller's instance
    \* ---- Fitch.py ----
    call,            \* which function the caller invoked
    transfer_edges,  \* the transfer_edges argument
    supply_undirected,
    first_transfer,  \* leaf -> node, 0 when the leaf is no key of the dict
    fitch_graph,     \* the nx.DiGraph under construction
    fitch_result,    \* what the call returned
    \* ---- EvolutionRates.py: simulate_gene_trees ----
    entry,           \* the function the caller invoked
    dupl_rate,       \* the dupl_rate argument (a distribution)
    base_rate_arg,   \* the base_rate argument (a distribution)
    N,               \* the number of gene trees asked for
    i,               \* the loop variable of line 75
    gene_trees,      \* the number of trees appended to gene_trees
    \* ---- EvolutionRates.py: the arguments of assign_rates ----
    base_rate,
    autocorr_factors,
    autocorr_variance,
    CSN_weights,
    inplace,
    \* ---- EvolutionRates.py: assign_rates and _divergent_rates ----
    work,            \* the instance the local name T refers to: "T" | "copy"
    copy_dist,       \* node -> dist of the copy made by T.copy(), else <<>>
    returned,        \* the instance assign_rates returned, "none" before
    T_nodes,         \* the list sorted_nodes(T)
    idx,             \* position of the loop of line 238 in T_nodes
    rates,           \* edge -> list of <<tstamp, rate>>
    gene_counter,    \* edge of S -> list of gene tree nodes
    marked,          \* node -> "conserved" | "divergent"
    \* ---- EvolutionRates.py: autocorrelation_factors ----
    variance,        \* the variance argument
    node_rates,      \* label -> rate of the node
    edge_rates,      \* label of v -> rate of the edge (v.parent, v)
    ac_idx,          \* position of the loop of line 338 in S.preorder()
    \* ---- PhyloTreeTools.py ----
    tool,            \* the function of PhyloTreeTools the caller invoked
    tree_arg,        \* the tree instance handed to the call
    tree_copy,       \* the instance made by tree.copy(), <<>> before
    tree_ref,        \* the instance the local name tree refers to
    tool_inplace,    \* the inplace argument
    loss_nodes,      \* the list loss_nodes of delete_losses_and_contract
    walk_idx,        \* position of a loop over nodes
    current_del,     \* the local current of delete_losses_and_contract
    leaf_order,      \* the leaf_order argument of distance_matrix
    rct_args,        \* the arguments of random_colored_tree
    tool_result,     \* what the call returned or raised
    tree_before,     \* the tree as it was when the call was made
    \* ---- control ----
    pc

treeVars  == <<parent, event, color, tstamp, transferred>>
fitchVars == <<call, transfer_edges, supply_undirected, first_transfer,
               fitch_graph, fitch_result>>
simVars   == <<entry, dupl_rate, base_rate_arg, N, i, gene_trees>>
paramVars == <<base_rate, autocorr_factors, autocorr_variance, CSN_weights,
               inplace>>
instVars  == <<work, copy_dist, returned>>
engVars   == <<T_nodes, idx, rates, gene_counter, marked>>
acVars    == <<variance, node_rates, edge_rates, ac_idx>>
rateVars  == <<simVars, paramVars, instVars, engVars, acVars>>
toolVars  == <<tool, tree_arg, tree_copy, tree_ref, tool_inplace, loss_nodes,
               walk_idx, current_del, leaf_order, rct_args, tool_result,
               tree_before>>
vars      == <<treeVars, dist, fitchVars, rateVars, toolVars, pc>>

-----------------------------------------------------------------------------
(* Bounds of the model *)

\* largest number of nodes of a tree handed to fitch
MaxNodes == 5

\* the rate increase of a divergent gene is drawn from 1..MaxIncrease
MaxIncrease == 2

\* the base rate of a call is one of 1..MaxBaseRate
MaxBaseRate == 2

\* largest number N of gene trees asked of simulate_gene_trees
MaxTrees == 2

\* largest number of nodes of a tree handed to phylo_tree_attributes
MaxAttrNodes == 3

\* largest number of nodes of a tree handed to delete_losses_and_contract
MaxLossTreeNodes == 5

\* largest length of a leaf_order handed to distance_matrix
MaxOrderLen == 3

\* largest number n of leaves asked of random_colored_tree
MaxLeaves == 2

-----------------------------------------------------------------------------
(* The tree container (tralda Tree / TreeNode), as the code uses it *)

\* None for a node reference
NoNode == 0

Nodes == DOMAIN parent

\* node.children
Children(u) == {v \in Nodes : parent[v] = u}

\* tree.supply_leaves(): the leaves of the tree
Leaves == {v \in Nodes : Children(v) = {}}

\* the nodes on the walk from v to the root, v included
RECURSIVE AncestorsOrSelf(_)
AncestorsOrSelf(v) ==
    IF v = NoNode THEN {} ELSE {v} \cup AncestorsOrSelf(parent[v])

\* number of edges between v and the root
RECURSIVE Depth(_)
Depth(v) == IF parent[v] = NoNode THEN 0 ELSE 1 + Depth(parent[v])

\* T.edges(): the pairs (parent, child)
Edges == {<<parent[v], v>> : v \in {w \in Nodes : parent[w] # NoNode}}

\* x.label of a gene tree node (the simulator labels a node with its ID)
LabelOf(x) == x

-----------------------------------------------------------------------------
(* The LCA oracle, asymmetree.tools.TreeTools.LCA *)

\* lca_T(x, y): the last common ancestor, found by lifting the deeper node
RECURSIVE lca_T(_, _)
lca_T(x, y) ==
    IF x = y THEN x
    ELSE IF Depth(x) >= Depth(y) THEN lca_T(parent[x], y)
    ELSE lca_T(x, parent[y])

\* lca_T.ancestor_not_equal(u, v): u is a strict ancestor of v
ancestor_not_equal(u, v) == u # v /\ lca_T(u, v) = u

-----------------------------------------------------------------------------
(* networkx graphs.  A graph is a record: nodes maps each node key to its *)
(* attributes (<<label, color>>, or <<>> for a node without attributes),  *)
(* edges is the set of pairs of node keys.  The key of a node added as    *)
(* x.ID is <<"ID", x>>, the key of a node added as the TreeNode x itself  *)
(* is <<"node", x>>: an integer ID and a TreeNode are never equal keys.   *)

IDKey(x) == <<"ID", x>>
NodeKey(x) == <<"node", x>>

EmptyGraph == [nodes |-> <<>>, edges |-> {}]

NoAttributes == <<>>

\* G.add_node(key, label=..., color=...) for every key of attrs, a mapping
\* from keys to attributes
AddNodes(G, attrs) ==
    [G EXCEPT !.nodes =
        [k \in (DOMAIN G.nodes) \cup (DOMAIN attrs) |->
            IF k \in DOMAIN attrs THEN attrs[k] ELSE G.nodes[k]]]

\* G.add_edge(a, b) for every pair of a set: an endpoint that is no node of
\* G yet becomes one, without attributes
AddEdges(G, pairs) ==
    LET ends == {p[1] : p \in pairs} \cup {p[2] : p \in pairs}
    IN  [nodes |-> [k \in (DOMAIN G.nodes) \cup ends |->
                        IF k \in DOMAIN G.nodes THEN G.nodes[k]
                        ELSE NoAttributes],
         edges |-> G.edges \cup pairs]

\* the variant that keeps {a, b} only if G has both a->b and b->a
symmetric_part_both(G) ==
    [nodes |-> G.nodes,
     edges |-> {{p[1], p[2]} : p \in {q \in G.edges : <<q[2], q[1]>> \in G.edges}}]

\* asymmetree.tools.GraphTools.symmetric_part: the undirected graph on the
\* nodes of G with {a, b} an edge iff G has an edge in at least one
\* direction between a and b (an undirected edge is the set of its ends)
symmetric_part(G) ==
    [nodes |-> G.nodes,
     edges |-> {{p[1], p[2]} : p \in G.edges}]

-----------------------------------------------------------------------------
(* Fitch.py *)

\* true_transfer_edges(T): v for each edge (u, v) with v.transferred
true_transfer_edges == {e[2] : e \in {f \in Edges : transferred[f[2]]}}

\* lines 62-67: the walk  current = x; while current: ...
RECURSIVE FirstTransferWalk(_)
FirstTransferWalk(current) ==
    IF current = NoNode THEN NoNode
    ELSE IF transferred[current] THEN current
    ELSE FirstTransferWalk(parent[current])

\* a variant of the condition of lines 71-72 that tests ancestor-or-equal
FitchEdgeConditionNotStrict(x, y) ==
    /\ first_transfer[y] # NoNode
    /\ lca_T(lca_T(x, y), first_transfer[y]) = lca_T(x, y)

\* lines 71-72: the condition under which fitch adds the edge (x, y)
FitchEdgeCondition(x, y) ==
    /\ first_transfer[y] # NoNode
    /\ ancestor_not_equal(lca_T(x, y), first_transfer[y])

\* a variant of lines 69-73 that calls fitch.add_edge(y, x)
FitchAddedEdgesReversed ==
    {<<NodeKey(p[2]), NodeKey(p[1])>> :
        p \in {q \in Leaves \X Leaves :
                 q[1] # q[2] /\ FitchEdgeCondition(q[1], q[2])}}

\* a variant of lines 69-73 that runs over itertools.product(leaves,
\* repeat=2) and accepts an lca equal to first_transfer[y]
FitchAddedEdgesProduct ==
    {<<NodeKey(p[1]), NodeKey(p[2])>> :
        p \in {q \in Leaves \X Leaves :
                 FitchEdgeConditionNotStrict(q[1], q[2])}}

\* lines 69-73: the pairs handed to fitch.add_edge(x, y)
FitchAddedEdges ==
    {<<NodeKey(p[1]), NodeKey(p[2])>> :
        p \in {q \in Leaves \X Leaves :
                 q[1] # q[2] /\ FitchEdgeCondition(q[1], q[2])}}

\* line 60: the attributes label=x.label, color=x.color of the node added
\* under the key k = x.ID
LeafAttributes(k) == <<LabelOf(k[2]), color[k[2]]>>

\* lines 75-78 and 89: what the call returns
FitchReturnValue ==
    IF call = "undirected_fitch" THEN symmetric_part(fitch_graph)
    ELSE IF supply_undirected
         THEN <<fitch_graph, symmetric_part(fitch_graph)>>
         ELSE <<fitch_graph>>

-----------------------------------------------------------------------------
(* The species tree S.  Its nodes are labelled 1..4: 1 is the planted     *)
(* root, 2 its single child, 3 and 4 the two species.                     *)

S_parent == <<0, 1, 2, 2>>
S_tstamp == <<8, 4, 0, 0>>
S_Nodes  == DOMAIN S_parent

\* v.dist of a node of S: the time between its parent and itself
S_dist(v) == IF S_parent[v] = NoNode THEN 0 ELSE S_tstamp[S_parent[v]] - S_tstamp[v]

\* S.edges(), as pairs of labels
S_edges == {<<S_parent[v], v>> : v \in {w \in S_Nodes : S_parent[w] # NoNode}}

\* S.preorder()
S_preorder == <<1, 2, 3, 4>>

\* line 234: S_parents = {v.label: v.parent.label for v in S.preorder() if v.parent}
S_parents == [v \in {w \in S_Nodes : S_parent[w] # NoNode} |-> S_parent[v]]

-----------------------------------------------------------------------------
(* Gene trees, as GeneTreeSimulator.simulate produces them along S: the   *)
(* planted root has event None and the color of the root of S, a          *)
(* speciation node has event 'S' and the color of its node of S, an       *)
(* extant leaf has event '' and the color of its species, and a           *)
(* duplication, loss or HGT node has the color (p, c) of the edge of S on *)
(* which it happens.  dist is the time between parent and child.          *)

Single(s) == <<s>>
Pair(p, c) == <<p, c>>

GeneTrees == <<
  \* 1: a single node
  [parent |-> <<0>>,
   event |-> <<"None">>,
   color |-> <<Single(1)>>,
   tstamp |-> <<8>>,
   transferred |-> <<FALSE>>],
  \* 2: speciation only
  [parent |-> <<0, 1, 2, 2>>,
   event |-> <<"None", "S", "", "">>,
   color |-> <<Single(1), Single(2), Single(3), Single(4)>>,
   tstamp |-> <<8, 4, 0, 0>>,
   transferred |-> <<FALSE, FALSE, FALSE, FALSE>>],
  \* 3: duplication on the stem, one copy lost before the speciation
  [parent |-> <<0, 1, 2, 2, 3, 3>>,
   event |-> <<"None", "D", "S", "L", "", "">>,
   color |-> <<Single(1), Pair(1, 2), Single(2), Pair(1, 2), Single(3), Single(4)>>,
   tstamp |-> <<8, 7, 4, 5, 0, 0>>,
   transferred |-> <<FALSE, FALSE, FALSE, FALSE, FALSE, FALSE>>],
  \* 4: duplication at the very time of the speciation (an edge of duration
  \*    0), one copy lost later
  [parent |-> <<0, 1, 2, 2, 3, 3>>,
   event |-> <<"None", "S", "D", "", "", "L">>,
   color |-> <<Single(1), Single(2), Pair(2, 3), Single(4), Single(3), Pair(2, 3)>>,
   tstamp |-> <<8, 4, 4, 0, 0, 2>>,
   transferred |-> <<FALSE, FALSE, FALSE, FALSE, FALSE, FALSE>>],
  \* 5: HGT from branch (2,3) into branch (2,4), second child transferred
  [parent |-> <<0, 1, 2, 2, 3, 3>>,
   event |-> <<"None", "S", "H", "", "", "">>,
   color |-> <<Single(1), Single(2), Pair(2, 3), Single(4), Single(3), Single(4)>>,
   tstamp |-> <<8, 4, 2, 0, 0, 0>>,
   transferred |-> <<FALSE, FALSE, FALSE, FALSE, FALSE, TRUE>>],
  \* 6: duplication, then HGT of one copy (first child transferred, lost
  \*    in the recipient branch), then loss of the other copy
  [parent |-> <<0, 1, 2, 2, 3, 3, 5, 5>>,
   event |-> <<"None", "S", "D", "", "H", "L", "L", "">>,
   color |-> <<Single(1), Single(2), Pair(2, 3), Single(4), Pair(2, 3),
               Pair(2, 3), Pair(2, 4), Single(3)>>,
   tstamp |-> <<8, 4, 3, 0, 2, 1, 1, 0>>,
   transferred |-> <<FALSE, FALSE, FALSE, FALSE, FALSE, FALSE, TRUE, FALSE>>],
  \* 7: duplication, loss of one copy, then HGT of the surviving copy
  [parent |-> <<0, 1, 2, 2, 3, 3, 5, 5>>,
   event |-> <<"None", "S", "D", "", "H", "L", "", "">>,
   color |-> <<Single(1), Single(2), Pair(2, 3), Single(4), Pair(2, 3),
               Pair(2, 3), Single(3), Single(4)>>,
   tstamp |-> <<8, 4, 3, 0, 1, 2, 0, 0>>,
   transferred |-> <<FALSE, FALSE, FALSE, FALSE, FALSE, FALSE, FALSE, TRUE>>],
  \* 8: HGT, then loss of the recipient branch's own copy
  [parent |-> <<0, 1, 2, 2, 3, 3>>,
   event |-> <<"None", "S", "H", "L", "", "">>,
   color |-> <<Single(1), Single(2), Pair(2, 3), Pair(2, 4), Single(3), Single(4)>>,
   tstamp |-> <<8, 4, 3, 2, 0, 0>>,
   transferred |-> <<FALSE, FALSE, FALSE, FALSE, FALSE, TRUE>>],
  \* 9: duplication on the stem, both copies go through the speciation
  [parent |-> <<0, 1, 2, 2, 3, 3, 4, 4>>,
   event |-> <<"None", "D", "S", "S", "", "", "", "">>,
   color |-> <<Single(1), Pair(1, 2), Single(2), Single(2), Single(3),
               Single(4), Single(3), Single(4)>>,
   tstamp |-> <<8, 7, 4, 4, 0, 0, 0, 0>>,
   transferred |-> <<FALSE, FALSE, FALSE, FALSE, FALSE, FALSE, FALSE, FALSE>>],
  \* 10: HGT from branch (2,3) into branch (2,4), the transferred copy
  \*     duplicates in the recipient branch
  [parent |-> <<0, 1, 2, 2, 3, 3, 6, 6>>,
   event |-> <<"None", "S", "H", "", "", "D", "", "">>,
   color |-> <<Single(1), Single(2), Pair(2, 3), Single(4), Single(3),
               Pair(2, 4), Single(4), Single(4)>>,
   tstamp |-> <<8, 4, 3, 0, 0, 2, 0, 0>>,
   transferred |-> <<FALSE, FALSE, FALSE, FALSE, FALSE, TRUE, FALSE, FALSE>>],
  \* 11: speciation, then loss of the copy of one species
  [parent |-> <<0, 1, 2, 2>>,
   event |-> <<"None", "S", "", "L">>,
   color |-> <<Single(1), Single(2), Single(3), Pair(2, 4)>>,
   tstamp |-> <<8, 4, 0, 2>>,
   transferred |-> <<FALSE, FALSE, FALSE, FALSE>>]
>>

\* the dist of the nodes of a gene tree as the simulator leaves them: the
\* time between parent and child, and the default dist 1.0 for the root
SimulatedDist(g) ==
    [v \in DOMAIN g.parent |->
        IF g.parent[v] = NoNode THEN 1
        ELSE g.tstamp[g.parent[v]] - g.tstamp[v]]

\* the gene tree has a node with event e
HasEvent(g, e) == \E v \in DOMAIN g.event : g.event[v] = e

-----------------------------------------------------------------------------
(* asymmetree.tools.Sampling.Sampler.  A distribution is <<"constant", c>> *)
(* for a float c, <<"uniform", lo, hi>>, or <<"gamma">>; draw() returns a  *)
(* value of its support plus the shift.                                    *)

Constant(c) == <<"constant", c>>

Support(distribution) ==
    IF distribution[1] = "constant" THEN {distribution[2]}
    ELSE IF distribution[1] = "uniform" THEN distribution[2]..distribution[3]
    ELSE 1..MaxIncrease

\* the values Sampler(distribution, shift=shift).draw() can return
SamplerDraws(distribution, shift) == {d + shift : d \in Support(distribution)}

\* line 97: rate_increase=('gamma', 0.5, 2.2)
rate_increase == <<"gamma">>

\* line 162: sampler = Sampler(rate_increase, shift=1.0); sampler.draw()
sampler == SamplerDraws(rate_increase, 1)

-----------------------------------------------------------------------------
(* PhyloTreeTools.sorted_nodes *)

\* the elements of a set of numbers in increasing order
RECURSIVE SortedSeq(_)
SortedSeq(S) ==
    IF S = {} THEN <<>>
    ELSE LET m == CHOOSE x \in S : \A y \in S : x <= y
         IN  <<m>> \o SortedSeq(S \ {m})

\* node.children, in the order of the children list
ChildrenSeq(u) == SortedSeq(Children(u))

\* tree.preorder() from node v
RECURSIVE preorder(_)
RECURSIVE PreorderAll(_)
preorder(v) == <<v>> \o PreorderAll(ChildrenSeq(v))
PreorderAll(vs) ==
    IF vs = <<>> THEN <<>> ELSE preorder(Head(vs)) \o PreorderAll(Tail(vs))

\* a variant of the step of the sort that puts v before the elements of
\* equal tstamp (equal keys come out in reversed order)
InsertBeforeEqual(sorted, v) ==
    LET k == Cardinality({j \in DOMAIN sorted : tstamp[sorted[j]] > tstamp[v]})
    IN  SubSeq(sorted, 1, k) \o <<v>> \o SubSeq(sorted, k + 1, Len(sorted))

\* one step of the stable sort by decreasing tstamp: v goes behind every
\* element whose tstamp is not smaller (equal keys keep their order)
InsertByTstamp(sorted, v) ==
    LET k == Cardinality({j \in DOMAIN sorted : tstamp[sorted[j]] >= tstamp[v]})
    IN  SubSeq(sorted, 1, k) \o <<v>> \o SubSeq(sorted, k + 1, Len(sorted))

RECURSIVE SortByTstamp(_, _)
SortByTstamp(sorted, rest) ==
    IF rest = <<>> THEN sorted
    ELSE SortByTstamp(InsertByTstamp(sorted, Head(rest)), Tail(rest))

\* lines 69-71: sorted(tree.preorder(), key=tstamp, reverse=True)
sorted_nodes == SortByTstamp(<<>>, preorder(1))

-----------------------------------------------------------------------------
(* EvolutionRates._divergent_rates *)

\* line 245: S_v = v.color if not isinstance(v.color, (tuple, list)) else v.color[1]
SpeciesOf(v) == IF Len(color[v]) = 2 THEN color[v][2] ELSE color[v][1]

\* the edge (v.parent, v)
EdgeTo(v) == <<parent[v], v>>

\* list.remove(u)
Remove(list, u) == SelectSeq(list, LAMBDA x : x # u)

\* a variant of lines 247, 257, 282, 291 that draws whatever the state is
NewRateAlwaysDrawn(mark, draw) == draw

\* lines 247, 257, 282, 291: sampler.draw() if marked[v] == 'divergent' else 1.0
NewRate(mark, draw) == IF mark = "divergent" THEN draw ELSE 1

\* lines 246 and 256: the key of gene_counter to which child v of u is appended
CounterKey(u, v) ==
    IF event[u] = "D" THEN color[u] ELSE color[u] \o <<SpeciesOf(v)>>

\* lines 242-246 and 255-256: gene_counter[key].append(v) for the children vs of u
RECURSIVE AppendChildren(_, _, _)
AppendChildren(counter, u, vs) ==
    IF vs = <<>> THEN counter
    ELSE AppendChildren(
             [counter EXCEPT ![CounterKey(u, Head(vs))] = Append(@, Head(vs))],
             u, Tail(vs))

\* lines 248 and 258: rates[(u,v)].append((u.tstamp, new_rate)) for every child v
AppendChildRates(history, u, mark, draws) ==
    [e \in DOMAIN history |->
        IF e[1] = u
        THEN Append(history[e], <<tstamp[u], NewRate(mark[e[2]], draws[e[2]])>>)
        ELSE history[e]]

\* lines 191-205: the pairs _duplication_type(marked_as, CSN_weights) can return
\* (np.random.choice(3, p=CSN_weights) returns an index of positive weight)
duplication_type(marked_as, weights) ==
    IF marked_as = "divergent" THEN {<<"divergent", "divergent">>}
    ELSE (IF weights[1] > 0 THEN {<<"conserved", "conserved">>} ELSE {})
         \cup (IF weights[2] > 0 THEN {<<"divergent", "divergent">>} ELSE {})
         \cup (IF weights[3] > 0
               THEN {<<"divergent", "conserved">>, <<"conserved", "divergent">>}
               ELSE {})

\* the node the loop of line 238 is at
CurrentNode == T_nodes[idx]

EngineAt(e) ==
    /\ pc = "divergent_rates"
    /\ idx <= Len(T_nodes)
    /\ event[CurrentNode] = e

engineFrame == <<treeVars, dist, instVars, fitchVars, toolVars, simVars,
                 paramVars, T_nodes, acVars>>

\* lines 241-248
Speciation ==
    /\ \E e \in {"S", "", "None"} : EngineAt(e)
    /\ LET u == CurrentNode
       IN  \E draws \in [Children(u) -> sampler] :
             /\ marked' = [v \in Nodes |->
                              IF parent[v] = u THEN marked[u] ELSE marked[v]]
             /\ gene_counter' = AppendChildren(gene_counter, u, ChildrenSeq(u))
             /\ rates' = AppendChildRates(rates, u, marked', draws)
    /\ idx' = idx + 1
    /\ UNCHANGED <<engineFrame, pc>>

\* lines 251-258
Duplication ==
    /\ EngineAt("D")
    /\ LET u  == CurrentNode
           cs == ChildrenSeq(u)
       IN  \E type \in duplication_type(marked[u], CSN_weights) :
           \E draws \in [Children(u) -> sampler] :
             /\ marked' = [marked EXCEPT ![cs[1]] = type[1], ![cs[2]] = type[2]]
             /\ gene_counter' =
                    AppendChildren(
                        [gene_counter EXCEPT ![color[u]] = Remove(@, u)], u, cs)
             /\ rates' = AppendChildRates(rates, u, marked', draws)
    /\ idx' = idx + 1
    /\ UNCHANGED <<engineFrame, pc>>

\* a variant of lines 261-267 without lines 263-267
LossWithoutReversion ==
    /\ EngineAt("L")
    /\ gene_counter' = [gene_counter EXCEPT
                           ![color[CurrentNode]] = Remove(@, CurrentNode)]
    /\ idx' = idx + 1
    /\ UNCHANGED <<engineFrame, pc, marked, rates>>

\* a variant of lines 261-267 without lines 266-267 (the reverted copy is
\* marked conserved, but its edge gets no history entry)
LossWithoutEntry ==
    /\ EngineAt("L")
    /\ LET u    == CurrentNode
           left == Remove(gene_counter[color[u]], u)
       IN  /\ gene_counter' = [gene_counter EXCEPT ![color[u]] = left]
           /\ IF Len(left) = 1 /\ marked[left[1]] = "divergent"
              THEN marked' = [marked EXCEPT ![left[1]] = "conserved"]
              ELSE UNCHANGED marked
    /\ idx' = idx + 1
    /\ UNCHANGED <<engineFrame, pc, rates>>

\* lines 261-267
Loss ==
    /\ EngineAt("L")
    /\ LET u    == CurrentNode
           left == Remove(gene_counter[color[u]], u)
       IN  /\ gene_counter' = [gene_counter EXCEPT ![color[u]] = left]
           /\ IF Len(left) = 1 /\ marked[left[1]] = "divergent"
              THEN /\ marked' = [marked EXCEPT ![left[1]] = "conserved"]
                   /\ rates' = [rates EXCEPT ![EdgeTo(left[1])] =
                                   Append(@, <<tstamp[u], 1>>)]
              ELSE UNCHANGED <<marked, rates>>
    /\ idx' = idx + 1
    /\ UNCHANGED <<engineFrame, pc>>

\* a variant of lines 270-292 that always takes lines 282-283 for the
\* untransferred copy (a new rate for its state)
HGTWithNewRate ==
    /\ EngineAt("H")
    /\ LET u  == CurrentNode
           cs == ChildrenSeq(u)
           v1 == IF transferred[cs[1]] THEN cs[2] ELSE cs[1]
           v2 == IF transferred[cs[1]] THEN cs[1] ELSE cs[2]
           key2 == IF Len(color[v2]) = 2 THEN color[v2]
                   ELSE <<S_parents[color[v2][1]], color[v2][1]>>
       IN  \E draw1 \in sampler : \E draw2 \in sampler :
             /\ marked' = [marked EXCEPT ![v1] = marked[u], ![v2] = "divergent"]
             /\ gene_counter' =
                    LET c1 == [gene_counter EXCEPT ![color[u]] =
                                  Append(Remove(@, u), v1)]
                    IN  [c1 EXCEPT ![key2] = Append(@, v2)]
             /\ rates' =
                    [rates EXCEPT
                       ![<<u, v1>>] =
                           Append(@, <<tstamp[u], NewRate(marked[u], draw1)>>),
                       ![<<u, v2>>] =
                           Append(@, <<tstamp[u], NewRate("divergent", draw2)>>)]
    /\ idx' = idx + 1
    /\ UNCHANGED <<engineFrame, pc>>

\* lines 270-292
HGT ==
    /\ EngineAt("H")
    /\ LET u  == CurrentNode
           cs == ChildrenSeq(u)
           \* lines 271-273: v2 is the transferred copy
           v1 == IF transferred[cs[1]] THEN cs[2] ELSE cs[1]
           v2 == IF transferred[cs[1]] THEN cs[1] ELSE cs[2]
           \* lines 287-290
           key2 == IF Len(color[v2]) = 2 THEN color[v2]
                   ELSE <<S_parents[color[v2][1]], color[v2][1]>>
       IN  \E draw1 \in sampler : \E draw2 \in sampler :
             /\ marked' = [marked EXCEPT ![v1] = marked[u], ![v2] = "divergent"]
             /\ gene_counter' =
                    LET c1 == [gene_counter EXCEPT ![color[u]] =
                                  Append(Remove(@, u), v1)]
                    IN  [c1 EXCEPT ![key2] = Append(@, v2)]
             /\ rates' =
                    [rates EXCEPT
                       ![<<u, v1>>] =
                           Append(@, <<tstamp[u],
                                       IF parent[u] # NoNode
                                       THEN rates[EdgeTo(u)][Len(rates[EdgeTo(u)])][2]
                                       ELSE NewRate(marked[u], draw1)>>),
                       ![<<u, v2>>] =
                           Append(@, <<tstamp[u], NewRate("divergent", draw2)>>)]
    /\ idx' = idx + 1
    /\ UNCHANGED <<engineFrame, pc>>

\* the value np.dot(-np.diff(time_points), rate_values) of lines 186-188:
\* the sum of (t_i - t_{i+1}) * r_i, the last time point being t_end
RECURSIVE SegmentSum(_, _)
SegmentSum(rate_list, t_end) ==
    IF rate_list = <<>> THEN 0
    ELSE LET next == IF Len(rate_list) > 1 THEN rate_list[2][1] ELSE t_end
         IN  (rate_list[1][1] - next) * rate_list[1][2]
             + SegmentSum(Tail(rate_list), t_end)

\* a variant of lines 183-188 that applies the first recorded rate to the
\* whole edge
adjust_distances_first_rate(d) ==
    [v \in DOMAIN d |->
        IF parent[v] # NoNode
        THEN (tstamp[parent[v]] - tstamp[v]) * rates[EdgeTo(v)][1][2]
        ELSE d[v]]

\* lines 183-188: the dist of every node after _adjust_distances(T, rates)
adjust_distances(d) ==
    [v \in DOMAIN d |->
        IF parent[v] # NoNode
        THEN SegmentSum(rates[EdgeTo(v)], tstamp[v])
        ELSE d[v]]

-----------------------------------------------------------------------------
(* EvolutionRates.autocorrelation_factors and _apply_autocorrelation *)

\* the values exp(np.random.normal(mu, sqrt(var))) can take, mu being
\* log(parent rate) - var/2: the parent's rate itself when var = 0, and a
\* positive value otherwise (here 1.0 or 3.0, odd so that the mean of two
\* node rates is an integer)
NodeRateDraws(parent_rate, var) ==
    IF var = 0 THEN {parent_rate} ELSE {1, 3}

\* f with the entry key -> value added
Extend(f, key, value) ==
    [k \in (DOMAIN f) \cup {key} |-> IF k = key THEN value ELSE f[k]]

\* a variant of line 352 that gives the edge the rate of its lower node
EdgeRateChild(rate_u, rate_v) == rate_v

\* line 352: the arithmetic mean of the rates of the two incident nodes
EdgeRate(rate_u, rate_v) == (rate_u + rate_v) \div 2

\* a variant of lines 362-365 that takes v.color[0] of a pair
apply_autocorrelation_origin(d, factors) ==
    [v \in DOMAIN d |->
        IF parent[v] # NoNode THEN d[v] * factors[color[v][1]] ELSE d[v]]

\* lines 362-365: the dist of every node after _apply_autocorrelation
apply_autocorrelation(d, factors) ==
    [v \in DOMAIN d |->
        IF parent[v] # NoNode THEN d[v] * factors[SpeciesOf(v)] ELSE d[v]]

\* lines 173-174: v.dist *= base_rate for every node
apply_base_rate(d) == [v \in DOMAIN d |-> d[v] * base_rate]

-----------------------------------------------------------------------------
(* EvolutionRates.assign_rates *)

\* None, for the autocorr_factors argument (an empty mapping is as falsy)
None == <<>>

\* a variant of lines 157-158 that keeps working on the caller's tree
WorkingInstanceCaller == "T"

\* lines 157-158: the instance the local name T refers to
WorkingInstance == IF inplace THEN "T" ELSE "copy"

\* the dist of the instance the local name T refers to
WorkDist == IF work = "copy" THEN copy_dist ELSE dist

SetWorkDist(d) ==
    IF work = "copy" THEN copy_dist' = d /\ UNCHANGED dist
    ELSE dist' = d /\ UNCHANGED copy_dist

\* lines 157-163 and 231-236
AssignRatesEnter ==
    /\ pc = "assign_rates"
    /\ work' = WorkingInstance
    /\ copy_dist' = IF inplace THEN <<>> ELSE dist
    /\ returned' = "none"
    /\ T_nodes' = sorted_nodes
    /\ idx' = 1
    /\ rates' = [e \in Edges |-> <<>>]
    /\ gene_counter' = [k \in S_edges |-> <<>>]
    /\ marked' = [v \in Nodes |-> "conserved"]
    /\ pc' = "divergent_rates"
    /\ UNCHANGED <<treeVars, dist, fitchVars, toolVars, simVars, paramVars, acVars>>

restFrame == <<treeVars, fitchVars, toolVars, simVars, T_nodes, idx, rates,
               gene_counter, marked>>

\* line 294
AdjustDistances ==
    /\ pc = "divergent_rates"
    /\ idx > Len(T_nodes)
    /\ SetWorkDist(adjust_distances(WorkDist))
    /\ pc' = "autocorrelation"
    /\ UNCHANGED <<restFrame, paramVars, acVars, work, returned>>

\* lines 166-167
ApplySuppliedFactors ==
    /\ pc = "autocorrelation"
    /\ autocorr_factors # None
    /\ SetWorkDist(apply_autocorrelation(WorkDist, autocorr_factors))
    /\ pc' = "base_rate"
    /\ UNCHANGED <<restFrame, paramVars, acVars, work, returned>>

\* lines 168-169: the call of autocorrelation_factors(S, autocorr_variance)
GenerateFactors ==
    /\ pc = "autocorrelation"
    /\ autocorr_factors = None
    /\ autocorr_variance > 0
    /\ variance' = autocorr_variance
    /\ node_rates' = <<>>
    /\ edge_rates' = <<>>
    /\ ac_idx' = 1
    /\ pc' = "autocorrelation_factors"
    /\ UNCHANGED <<restFrame, paramVars, dist, instVars>>

\* lines 166-170, neither branch taken
NoAutocorrelation ==
    /\ pc = "autocorrelation"
    /\ autocorr_factors = None
    /\ ~(autocorr_variance > 0)
    /\ pc' = "base_rate"
    /\ UNCHANGED <<restFrame, paramVars, acVars, dist, instVars>>

\* lines 338-352: one node of tree.preorder()
AutocorrelationFactorsStep ==
    /\ pc = "autocorrelation_factors"
    /\ ac_idx <= Len(S_preorder)
    /\ LET v == S_preorder[ac_idx]
       IN  IF S_parent[v] = NoNode
           THEN /\ node_rates' = Extend(node_rates, v, 1)
                /\ edge_rates' = Extend(edge_rates, v, 1)
           ELSE \E rate \in NodeRateDraws(node_rates[S_parent[v]],
                                          variance * S_dist(v)) :
                  /\ node_rates' = Extend(node_rates, v, rate)
                  /\ edge_rates' = Extend(edge_rates, v,
                                      EdgeRate(node_rates[S_parent[v]], rate))
    /\ ac_idx' = ac_idx + 1
    /\ UNCHANGED <<restFrame, paramVars, variance, dist, instVars, pc>>

\* line 354 and lines 169-170: _apply_autocorrelation(T, edge_rates)
ApplyGeneratedFactors ==
    /\ pc = "autocorrelation_factors"
    /\ ac_idx > Len(S_preorder)
    /\ entry = "assign_rates"
    /\ SetWorkDist(apply_autocorrelation(WorkDist, edge_rates))
    /\ pc' = "base_rate"
    /\ UNCHANGED <<restFrame, paramVars, acVars, work, returned>>

\* lines 173-176
ApplyBaseRate ==
    /\ pc = "base_rate"
    /\ SetWorkDist(apply_base_rate(WorkDist))
    /\ returned' = work
    /\ pc' = IF entry = "simulate_gene_trees" THEN "simulate_append" ELSE "done"
    /\ UNCHANGED <<restFrame, paramVars, acVars, work>>

-----------------------------------------------------------------------------
(* EvolutionRates.simulate_gene_trees *)

\* line 65: dupl_rate_sampler = Sampler(dupl_rate)
dupl_rate_sampler == SamplerDraws(dupl_rate, 0)

\* line 68: base_rate_sampler = Sampler(dupl_rate)
base_rate_sampler == SamplerDraws(dupl_rate, 0)

\* lines 62-72: the samplers, and the call of autocorrelation_factors with
\* the autocorr_variance popped from kwargs
SimulateSetup ==
    /\ pc = "simulate_gene_trees"
    /\ gene_trees' = 0
    /\ i' = 0
    /\ variance' = autocorr_variance
    /\ autocorr_variance' = 0
    /\ node_rates' = <<>>
    /\ edge_rates' = <<>>
    /\ ac_idx' = 1
    /\ pc' = "autocorrelation_factors"
    /\ UNCHANGED <<treeVars, dist, instVars, fitchVars, toolVars, entry, dupl_rate,
                   base_rate_arg, N, base_rate, autocorr_factors, CSN_weights,
                   inplace, T_nodes, idx, rates, gene_counter, marked>>

\* line 72: _, autocorr_factors = autocorrelation_factors(S, autocorr_variance)
SimulateTakeFactors ==
    /\ pc = "autocorrelation_factors"
    /\ ac_idx > Len(S_preorder)
    /\ entry = "simulate_gene_trees"
    /\ autocorr_factors' = edge_rates
    /\ pc' = "simulate_loop"
    /\ UNCHANGED <<restFrame, acVars, dist, instVars, base_rate,
                   autocorr_variance, CSN_weights, inplace>>

\* lines 75-83: TGT = simulator.simulate(...) and the call of assign_rates;
\* a tree simulated with duplication rate 0 has no duplication node, and
\* with the defaults loss_rate=0.0 and hgt_rate=0.0 of lines 26-27 it has
\* no loss and no HGT node
SimulateTree ==
    /\ pc = "simulate_loop"
    /\ i < N
    /\ \E g \in DOMAIN GeneTrees : \E d \in dupl_rate_sampler :
          /\ d = 0 => ~HasEvent(GeneTrees[g], "D")
          /\ ~HasEvent(GeneTrees[g], "L")
          /\ ~HasEvent(GeneTrees[g], "H")
          /\ parent' = GeneTrees[g].parent
          /\ event' = GeneTrees[g].event
          /\ color' = GeneTrees[g].color
          /\ tstamp' = GeneTrees[g].tstamp
          /\ transferred' = GeneTrees[g].transferred
          /\ dist' = SimulatedDist(GeneTrees[g])
    /\ base_rate' \in base_rate_sampler
    /\ pc' = "assign_rates"
    /\ UNCHANGED <<instVars, fitchVars, toolVars, simVars, autocorr_factors,
                   autocorr_variance, CSN_weights, inplace, T_nodes, idx,
                   rates, gene_counter, marked, acVars>>

\* line 84: gene_trees.append(TGT)
SimulateAppend ==
    /\ pc = "simulate_append"
    /\ gene_trees' = gene_trees + 1
    /\ i' = i + 1
    /\ pc' = "simulate_loop"
    /\ UNCHANGED <<treeVars, dist, instVars, fitchVars, toolVars, entry, dupl_rate,
                   base_rate_arg, N, paramVars, T_nodes, idx, rates,
                   gene_counter, marked, acVars>>

\* line 86
SimulateReturn ==
    /\ pc = "simulate_loop"
    /\ i >= N
    /\ pc' = "done"
    /\ UNCHANGED <<treeVars, dist, instVars, fitchVars, toolVars, simVars, paramVars,
                   T_nodes, idx, rates, gene_counter, marked, acVars>>

-----------------------------------------------------------------------------
(* The calls *)

\* values of the variables a call does not use
ToolsIdle ==
    /\ tool = "none"
    /\ tree_arg = <<>>
    /\ tree_copy = <<>>
    /\ tree_ref = "arg"
    /\ tool_inplace = TRUE
    /\ loss_nodes = <<>>
    /\ walk_idx = 1
    /\ current_del = 0
    /\ leaf_order = <<>>
    /\ rct_args = <<>>
    /\ tool_result = <<>>
    /\ tree_before = <<>>

FitchIdle ==
    /\ call = "none"
    /\ transfer_edges = {}
    /\ supply_undirected = FALSE
    /\ first_transfer = <<>>
    /\ fitch_graph = EmptyGraph
    /\ fitch_result = <<>>

EngineIdle ==
    /\ work = "T"
    /\ copy_dist = <<>>
    /\ returned = "none"
    /\ T_nodes = <<>>
    /\ idx = 1
    /\ rates = <<>>
    /\ gene_counter = <<>>
    /\ marked = <<>>
    /\ variance = 0
    /\ node_rates = <<>>
    /\ edge_rates = <<>>
    /\ ac_idx = 1

RatesIdle ==
    /\ EngineIdle
    /\ entry = "none"
    /\ dupl_rate = Constant(0)
    /\ base_rate_arg = Constant(1)
    /\ N = 1
    /\ i = 0
    /\ gene_trees = 0
    /\ base_rate = 1
    /\ autocorr_factors = None
    /\ autocorr_variance = 0
    /\ CSN_weights = <<1, 1, 1>>
    /\ inplace = TRUE

\* a mapping with a factor for every edge of S, keyed by the label of its
\* lower node (and a factor for the root)
SuppliedFactors == {<<1, 2, 3, 5>>}

\* the weights of conservation, subfunctionalization, neofunctionalization
WeightChoices == {<<1, 1, 1>>, <<1, 0, 0>>, <<0, 1, 1>>}

\* a call assign_rates(T, S, base_rate, autocorr_factors, autocorr_variance,
\* CSN_weights=..., inplace=...) on a simulated gene tree
InitAssignRates ==
    /\ FitchIdle
    /\ ToolsIdle
    /\ EngineIdle
    /\ entry = "assign_rates"
    /\ \E g \in DOMAIN GeneTrees :
          /\ parent = GeneTrees[g].parent
          /\ event = GeneTrees[g].event
          /\ color = GeneTrees[g].color
          /\ tstamp = GeneTrees[g].tstamp
          /\ transferred = GeneTrees[g].transferred
          /\ dist = SimulatedDist(GeneTrees[g])
    /\ base_rate \in 1..MaxBaseRate
    /\ autocorr_factors \in {None} \cup SuppliedFactors
    /\ autocorr_variance \in {0, 1}
    /\ CSN_weights \in WeightChoices
    /\ inplace \in BOOLEAN
    /\ dupl_rate = Constant(0)
    /\ base_rate_arg = Constant(1)
    /\ N = 1
    /\ i = 0
    /\ gene_trees = 0
    /\ pc = "assign_rates"

\* a call simulate_gene_trees(S, N, dupl_rate=..., base_rate=...,
\* autocorr_variance=...), the other arguments at their defaults
InitSimulate ==
    /\ FitchIdle
    /\ ToolsIdle
    /\ EngineIdle
    /\ entry = "simulate_gene_trees"
    /\ parent = <<>> /\ event = <<>> /\ color = <<>> /\ tstamp = <<>>
    /\ transferred = <<>> /\ dist = <<>>
    /\ dupl_rate \in {Constant(0), Constant(1), <<"uniform", 0, 1>>}
    /\ base_rate_arg \in {Constant(c) : c \in 1..MaxBaseRate}
    /\ N \in 1..MaxTrees
    /\ i = 0
    /\ gene_trees = 0
    /\ base_rate = 1
    /\ autocorr_factors = None
    /\ autocorr_variance \in {0, 1}
    /\ CSN_weights = <<1, 1, 1>>
    /\ inplace = TRUE
    /\ pc = "simulate_gene_trees"

InitRates == InitAssignRates \/ InitSimulate

NextRates ==
    \/ SimulateSetup
    \/ SimulateTakeFactors
    \/ SimulateTree
    \/ SimulateAppend
    \/ SimulateReturn
    \/ AssignRatesEnter
    \/ Speciation
    \/ Duplication
    \/ Loss
    \/ HGT
    \/ AdjustDistances
    \/ ApplySuppliedFactors
    \/ GenerateFactors
    \/ NoAutocorrelation
    \/ AutocorrelationFactorsStep
    \/ ApplyGeneratedFactors
    \/ ApplyBaseRate

SpecRates == InitRates /\ [][NextRates]_vars

-----------------------------------------------------------------------------
(* The calls of Fitch.py *)

\* all trees with n nodes, node 1 the root, parents numbered before children
TreeShapes(n) ==
    {p \in [1..n -> 0..n] :
        /\ p[1] = NoNode
        /\ \A v \in 2..n : p[v] >= 1 /\ p[v] < v}

InitFitch ==
    /\ \E n \in 1..MaxNodes : parent \in TreeShapes(n)
    /\ transferred \in [DOMAIN parent -> BOOLEAN]
    /\ transferred[1] = FALSE
    /\ transfer_edges \in SUBSET ((DOMAIN parent) \ {1})
    /\ call \in {"fitch", "undirected_fitch"}
    /\ supply_undirected \in BOOLEAN
    /\ (call = "undirected_fitch" => supply_undirected)
    /\ event = [v \in DOMAIN parent |-> "None"]
    /\ color = [v \in DOMAIN parent |-> <<3 + (v % 2)>>]
    /\ tstamp = [v \in DOMAIN parent |-> 0]
    /\ dist = [v \in DOMAIN parent |-> 1]
    /\ first_transfer = <<>>
    /\ fitch_graph = EmptyGraph
    /\ fitch_result = <<>>
    /\ RatesIdle
    /\ ToolsIdle
    /\ pc = "fitch"

\* lines 53-67: one graph node per leaf, and the first_transfer dict
FitchNodes ==
    /\ pc = "fitch"
    /\ fitch_graph' = AddNodes(EmptyGraph,
                               [k \in {IDKey(x) : x \in Leaves} |->
                                   LeafAttributes(k)])
    /\ first_transfer' = [x \in Leaves |-> FirstTransferWalk(x)]
    /\ pc' = "fitch_edges"
    /\ UNCHANGED <<treeVars, dist, rateVars, toolVars, call, transfer_edges, supply_undirected,
                   fitch_result>>

\* lines 69-73: the edges
FitchEdges ==
    /\ pc = "fitch_edges"
    /\ fitch_graph' = AddEdges(fitch_graph, FitchAddedEdges)
    /\ pc' = "fitch_return"
    /\ UNCHANGED <<treeVars, dist, rateVars, toolVars, call, transfer_edges, supply_undirected,
                   first_transfer, fitch_result>>

\* lines 75-78 (and line 89 for undirected_fitch)
FitchReturn ==
    /\ pc = "fitch_return"
    /\ fitch_result' = FitchReturnValue
    /\ pc' = "fitch_done"
    /\ UNCHANGED <<treeVars, dist, rateVars, toolVars, call, transfer_edges, supply_undirected,
                   first_transfer, fitch_graph>>

NextFitch == FitchNodes \/ FitchEdges \/ FitchReturn

SpecFitch == InitFitch /\ [][NextFitch]_vars

-----------------------------------------------------------------------------
(* Properties of Fitch.py *)

\* v is a strict ancestor of w, read off the parent links
StrictAncestorOf(v, w) == v # w /\ v \in AncestorsOrSelf(w)

\* the lowest common ancestor, from its definition
LowestCommonAncestor(x, y) ==
    CHOOSE a \in AncestorsOrSelf(x) \cap AncestorsOrSelf(y) :
        \A b \in AncestorsOrSelf(x) \cap AncestorsOrSelf(y) :
            b \in AncestorsOrSelf(a)

\* the directed graph a call of fitch returned
FitchDone == pc = "fitch_done" /\ call = "fitch"
DirectedFitch == fitch_result[1]

\* the directed graph has the edge x -> y between the leaves x and y
HasEdge(x, y) == <<NodeKey(x), NodeKey(y)>> \in DirectedFitch.edges

\* C1 (as stated): for distinct leaves x, y the returned directed graph has
\* the edge x->y iff first_transfer[y] is defined and the lowest common
\* ancestor of x and y is a strict DESCENDANT of first_transfer[y].
C1_AsStated ==
    FitchDone =>
        \A x \in Leaves : \A y \in Leaves \ {x} :
            HasEdge(x, y) <=>
                /\ first_transfer[y] # NoNode
                /\ StrictAncestorOf(first_transfer[y],
                                    LowestCommonAncestor(x, y))

\* C1 (amended): for distinct leaves x, y the returned directed graph has
\* the edge x->y iff first_transfer[y] is defined and the lowest common
\* ancestor of x and y is a strict ANCESTOR of first_transfer[y].
C1_EdgeIffLcaStrictlyAbove ==
    FitchDone =>
        \A x \in Leaves : \A y \in Leaves \ {x} :
            HasEdge(x, y) <=>
                /\ first_transfer[y] # NoNode
                /\ StrictAncestorOf(LowestCommonAncestor(x, y),
                                    first_transfer[y])

\* a call returned a graph with an edge x->y, and there is a pair whose lca
\* is first_transfer[y] itself (the boundary case: no edge)
C1_Witness ==
    /\ FitchDone
    /\ \E x \in Leaves : \E y \in Leaves \ {x} : HasEdge(x, y)
    /\ \E x \in Leaves : \E y \in Leaves \ {x} :
          /\ first_transfer[y] = LowestCommonAncestor(x, y)
          /\ ~HasEdge(x, y)

\* the first node on the walk from x to the root that is in transfer_edges
RECURSIVE FirstInTransferEdges(_)
FirstInTransferEdges(current) ==
    IF current = NoNode THEN NoNode
    ELSE IF current \in transfer_edges THEN current
    ELSE FirstInTransferEdges(parent[current])

\* C2: for every leaf x, first_transfer[x] is the first node on the walk
\* from x toward the root (x included) that belongs to the transfer_edges
\* argument, and x is no key of first_transfer when there is no such node.
C2_FirstTransferFromArgument ==
    pc \in {"fitch_edges", "fitch_return", "fitch_done"} =>
        \A x \in Leaves : first_transfer[x] = FirstInTransferEdges(x)

\* C3: the returned graph has exactly one node per leaf, each node carries
\* the label and the color of its leaf, and both ends of every edge are
\* among these nodes.
C3_OneAttributedNodePerLeaf ==
    FitchDone =>
        /\ Cardinality(DOMAIN DirectedFitch.nodes) = Cardinality(Leaves)
        /\ \A k \in DOMAIN DirectedFitch.nodes :
              /\ k[2] \in Leaves
              /\ DirectedFitch.nodes[k] = <<LabelOf(k[2]), color[k[2]]>>
        /\ \A e \in DirectedFitch.edges :
              \E x \in Leaves : \E y \in Leaves :
                  /\ {e[1], e[2]} \subseteq DOMAIN DirectedFitch.nodes
                  /\ e[1][2] = x /\ e[2][2] = y

\* the undirected graph the call returned
UndirectedDone == pc = "fitch_done" /\ supply_undirected
UndirectedFitch ==
    IF call = "undirected_fitch" THEN fitch_result ELSE fitch_result[2]

C5_EdgeDirection ==
    FitchDone =>
        /\ \A x \in Leaves : \A y \in Leaves \ {x} :
              HasEdge(x, y) <=>
                  /\ first_transfer[y] # NoNode
                  /\ first_transfer[y] \notin AncestorsOrSelf(x)
        /\ \A y \in Leaves :
              (\A a \in AncestorsOrSelf(y) : ~transferred[a]) =>
                  \A x \in Leaves : ~HasEdge(x, y)

\* a call returned a graph with x->y and without y->x, and some leaf without
\* a transfer edge above it has no incoming edge
C5_Witness ==
    /\ FitchDone
    /\ \E x \in Leaves : \E y \in Leaves \ {x} :
          /\ HasEdge(x, y) /\ ~HasEdge(y, x)
          /\ \A a \in AncestorsOrSelf(x) : ~transferred[a]

-----------------------------------------------------------------------------
(* Properties of EvolutionRates.py *)

\* C6: the base_rate handed to assign_rates by simulate_gene_trees is drawn
\* from the distribution given by the base_rate argument (with the defaults
\* it is 1.0), whatever the dupl_rate argument is.
C6_BaseRateFromBaseRateArgument ==
    (entry = "simulate_gene_trees" /\ pc = "assign_rates") =>
        base_rate \in SamplerDraws(base_rate_arg, 0)

\* assign_rates has returned
AssignRatesReturned == pc \in {"done", "simulate_append"}

\* the dist of the instance assign_rates returned
ReturnedDist == IF returned = "copy" THEN copy_dist ELSE dist

NonRoot == {v \in Nodes : parent[v] # NoNode}

\* C7: after assign_rates every edge (parent, child) has dist >= 0, and
\* dist = 0 if and only if parent.tstamp = child.tstamp.
C7_DistZeroIffNoDuration ==
    AssignRatesReturned =>
        \A v \in NonRoot :
            /\ ReturnedDist[v] >= 0
            /\ ReturnedDist[v] = 0 <=> tstamp[parent[v]] = tstamp[v]

\* the sum over the history (t_1, r_1) ... (t_k, r_k) of an edge to v of
\* (t_i - t_{i+1}) * r_i, with t_{k+1} = v.tstamp
HistorySum(v) ==
    LET h == rates[<<parent[v], v>>]
        t(j) == IF j = Len(h) + 1 THEN tstamp[v] ELSE h[j][1]
        sum[j \in 0..Len(h)] ==
            IF j = 0 THEN 0 ELSE sum[j - 1] + (t(j) - t(j + 1)) * h[j][2]
    IN  sum[Len(h)]

\* assign_rates applies no autocorrelation
NoAutocorrelationAsked == autocorr_factors = None /\ ~(autocorr_variance > 0)

\* C8: after assign_rates without autocorrelation, every edge (u, v) has
\* dist = base_rate * sum_i (t_i - t_{i+1}) * r_i over its recorded history,
\* with t_{k+1} = v.tstamp (so dist is linear in base_rate for fixed draws).
C8_DistIsBaseRateTimesHistorySum ==
    (AssignRatesReturned /\ NoAutocorrelationAsked) =>
        \A v \in NonRoot : ReturnedDist[v] = base_rate * HistorySum(v)

\* assign_rates returned, without autocorrelation and with base rate 2, a
\* tree with an edge whose history has two segments of different rates
C8_Witness ==
    /\ AssignRatesReturned /\ NoAutocorrelationAsked
    /\ base_rate = 2
    /\ \E v \in NonRoot :
          /\ Len(rates[<<parent[v], v>>]) = 2
          /\ rates[<<parent[v], v>>][1][2] # rates[<<parent[v], v>>][2][2]
          /\ rates[<<parent[v], v>>][2][1] > tstamp[v]
          /\ ReturnedDist[v] = 2 * HistorySum(v)

\* the species branch node v occupies: its color, or the destination when
\* its color is an (origin, destination) pair
Branch(v) == color[v][Len(color[v])]

\* the autocorrelation factor assign_rates has to apply to v
FactorOf(v) ==
    IF autocorr_factors # None THEN autocorr_factors[Branch(v)]
    ELSE IF autocorr_variance > 0 THEN edge_rates[Branch(v)]
    ELSE 1

\* the dist assign_rates has to leave on node v
RewrittenDist(v) ==
    IF parent[v] = NoNode THEN base_rate * SimulatedDist(
                                   [parent |-> parent, tstamp |-> tstamp])[v]
    ELSE base_rate * FactorOf(v) * HistorySum(v)

\* C9: with inplace=False assign_rates leaves the caller's tree as it was
\* and returns a separate copy carrying the rewritten distances; with
\* inplace=True it rewrites the distances of the instance it was given and
\* returns that instance.
C9_InplaceOrCopy ==
    entry = "assign_rates" =>
        /\ \E g \in DOMAIN GeneTrees :
              /\ <<parent, event, color, tstamp, transferred>> =
                     <<GeneTrees[g].parent, GeneTrees[g].event,
                       GeneTrees[g].color, GeneTrees[g].tstamp,
                       GeneTrees[g].transferred>>
              /\ ~inplace => dist = SimulatedDist(GeneTrees[g])
        /\ pc = "done" =>
              /\ returned = IF inplace THEN "T" ELSE "copy"
              /\ inplace => copy_dist = <<>>
              /\ \A v \in Nodes : ReturnedDist[v] = RewrittenDist(v)

\* assign_rates(inplace=False) returned a copy whose distances differ from
\* those of the caller's tree
C9_Witness ==
    /\ entry = "assign_rates" /\ pc = "done" /\ ~inplace
    /\ returned = "copy"
    /\ \E v \in NonRoot : copy_dist[v] # dist[v]

\* C10: when a factor mapping is supplied, or none is supplied and
\* autocorr_variance > 0 (factors generated from S), the dist of every
\* non-root node is multiplied exactly once by the factor of the species
\* branch the node occupies; a supplied mapping takes precedence over the
\* variance; when neither is given no factor is applied.
C10_AutocorrelationFactorOnce ==
    pc \in {"base_rate", "done", "simulate_append"} =>
        \A v \in NonRoot :
            WorkDist[v] = (IF pc = "base_rate" THEN 1 ELSE base_rate)
                          * FactorOf(v) * HistorySum(v)

\* a mapping was supplied together with a positive variance, and a node
\* with a pair color got the factor of its destination branch, not 1
C10_Witness ==
    /\ pc = "done"
    /\ autocorr_factors # None /\ autocorr_variance > 0
    /\ \E v \in NonRoot :
          /\ Len(color[v]) = 2
          /\ autocorr_factors[color[v][2]] # autocorr_factors[color[v][1]]
          /\ HistorySum(v) > 0
          /\ ReturnedDist[v] = base_rate * autocorr_factors[color[v][2]] * HistorySum(v)

-----------------------------------------------------------------------------
(* Properties of autocorrelation_factors *)

\* the labels of the nodes met by the loop of line 338 so far
LabelsDone == {S_preorder[j] : j \in 1..(ac_idx - 1)}

\* autocorrelation_factors has been called and has left its loop
FactorsReturned ==
    /\ pc # "autocorrelation_factors"
    /\ DOMAIN node_rates # {}

\* C11: the two mappings of autocorrelation_factors have one entry per node
\* label of S met so far (all of them on return), the root has node rate 1.0
\* and edge rate 1.0, a node has its rate only when its parent has one and
\* takes the parent's rate when the variance of its draw is 0, and the edge
\* rate of a non-root node is the arithmetic mean of the node rates of the
\* node and its parent.
C11_AutocorrelationFactors ==
    /\ pc = "autocorrelation_factors" =>
          /\ DOMAIN node_rates = LabelsDone
          /\ DOMAIN edge_rates = LabelsDone
    /\ FactorsReturned =>
          /\ DOMAIN node_rates = S_Nodes
          /\ DOMAIN edge_rates = S_Nodes
    /\ \A v \in DOMAIN node_rates :
          IF S_parent[v] = NoNode
          THEN node_rates[v] = 1 /\ edge_rates[v] = 1
          ELSE /\ S_parent[v] \in DOMAIN node_rates
               /\ variance * S_dist(v) = 0 =>
                     node_rates[v] = node_rates[S_parent[v]]
               /\ 2 * edge_rates[v] = node_rates[S_parent[v]] + node_rates[v]

\* autocorrelation_factors has returned an edge rate that lies strictly
\* between two different node rates
C11_Witness ==
    /\ FactorsReturned
    /\ \E v \in S_Nodes :
          /\ S_parent[v] # NoNode
          /\ node_rates[S_parent[v]] < edge_rates[v]
          /\ edge_rates[v] < node_rates[v]

-----------------------------------------------------------------------------
(* PhyloTreeTools.py.  A tree handed to one of its functions is a record   *)
(* of the parent of every node (0 for the root), the children list of      *)
(* every node, and the attributes of every node.  An attribute of a node   *)
(* is <<>> when the node has no such attribute (hasattr is False) and      *)
(* <<value>> otherwise; the value None of reconc and tstamp is the number  *)
(* NoneNum, the value None of event the string "None".                     *)

NoneNum == -1

\* lines 22-27
default_attributes ==
    [label |-> <<"">>, event |-> <<"None">>, reconc |-> <<NoneNum>>,
     dist |-> <<1>>, tstamp |-> <<NoneNum>>, transferred |-> <<0>>]

\* hasattr(v, key)
hasattr(t, v, key) == t.attr[v][key] # <<>>

\* the children lists that go with a parent map (children in node order)
ChildrenOf(p) ==
    [u \in DOMAIN p |-> SortedSeq({v \in DOMAIN p : p[v] = u})]

\* tree.preorder() and tree.postorder() of a tree record, from node v
RECURSIVE tree_preorder(_, _)
RECURSIVE PreorderOfAll(_, _)
tree_preorder(t, v) == <<v>> \o PreorderOfAll(t, t.children[v])
PreorderOfAll(t, vs) ==
    IF vs = <<>> THEN <<>>
    ELSE tree_preorder(t, Head(vs)) \o PreorderOfAll(t, Tail(vs))

RECURSIVE tree_postorder(_, _)
RECURSIVE PostorderOfAll(_, _)
tree_postorder(t, v) == PostorderOfAll(t, t.children[v]) \o <<v>>
PostorderOfAll(t, vs) ==
    IF vs = <<>> THEN <<>>
    ELSE tree_postorder(t, Head(vs)) \o PostorderOfAll(t, Tail(vs))

\* tree.root
RootOf(t) == CHOOSE v \in DOMAIN t.parent : t.parent[v] = NoNode

\* the instance the local name tree refers to
ToolTree == IF tree_ref = "copy" THEN tree_copy ELSE tree_arg

SetToolTree(t) ==
    IF tree_ref = "copy" THEN tree_copy' = t /\ UNCHANGED tree_arg
    ELSE tree_arg' = t /\ UNCHANGED tree_copy

\* if not inplace: tree = tree.copy()
CopyUnlessInplace ==
    /\ tree_ref' = IF tool_inplace THEN "arg" ELSE "copy"
    /\ tree_copy' = IF tool_inplace THEN <<>> ELSE tree_arg
    /\ UNCHANGED tree_arg

toolFrame == <<treeVars, dist, fitchVars, rateVars, tool, tool_inplace,
               leaf_order, rct_args, tree_before>>

-----------------------------------------------------------------------------
(* PhyloTreeTools.phylo_tree_attributes *)

AttributeKeys == DOMAIN default_attributes

\* lines 498-500 for one node v: for every key v lacks,
\* setattr(tree.root, key, value)
SetMissing(t, v) ==
    [t EXCEPT !.attr[RootOf(t)] =
        [key \in AttributeKeys |->
            IF hasattr(t, v, key) THEN t.attr[RootOf(t)][key]
            ELSE default_attributes[key]]]

\* lines 494-495
PhyloTreeAttributesEnter ==
    /\ pc = "phylo_tree_attributes"
    /\ CopyUnlessInplace
    /\ walk_idx' = 1
    /\ pc' = "phylo_tree_attributes_loop"
    /\ UNCHANGED <<toolFrame, loss_nodes, current_del, tool_result>>

\* lines 497-500, one node of tree.preorder()
PhyloTreeAttributesStep ==
    /\ pc = "phylo_tree_attributes_loop"
    /\ LET order == tree_preorder(ToolTree, RootOf(ToolTree))
       IN  /\ walk_idx <= Len(order)
           /\ SetToolTree(SetMissing(ToolTree, order[walk_idx]))
    /\ walk_idx' = walk_idx + 1
    /\ UNCHANGED <<toolFrame, tree_ref, loss_nodes, current_del, tool_result, pc>>

\* line 502
PhyloTreeAttributesReturn ==
    /\ pc = "phylo_tree_attributes_loop"
    /\ walk_idx > Len(tree_preorder(ToolTree, RootOf(ToolTree)))
    /\ tool_result' = <<"return", tree_ref>>
    /\ pc' = "done"
    /\ UNCHANGED <<toolFrame, tree_arg, tree_copy, tree_ref, loss_nodes,
                   current_del, walk_idx>>

\* the attributes a node of a tree handed to phylo_tree_attributes can have:
\* all six with values other than the defaults, none, or all but dist and
\* transferred
NodeAttributes ==
    {[label |-> <<"a">>, event |-> <<"S">>, reconc |-> <<2>>, dist |-> <<3>>,
      tstamp |-> <<4>>, transferred |-> <<1>>],
     [label |-> <<>>, event |-> <<>>, reconc |-> <<>>, dist |-> <<>>,
      tstamp |-> <<>>, transferred |-> <<>>],
     [label |-> <<"a">>, event |-> <<"S">>, reconc |-> <<2>>, dist |-> <<>>,
      tstamp |-> <<4>>, transferred |-> <<>>]}

\* values of the variables of the rate engine and of Fitch.py during a call
\* of PhyloTreeTools
NoGeneTree ==
    /\ parent = <<>> /\ event = <<>> /\ color = <<>> /\ tstamp = <<>>
    /\ transferred = <<>> /\ dist = <<>>
    /\ FitchIdle
    /\ RatesIdle

\* a call phylo_tree_attributes(tree, inplace=...)
InitPhyloTreeAttributes ==
    /\ NoGeneTree
    /\ tool = "phylo_tree_attributes"
    /\ \E n \in 1..MaxAttrNodes : \E p \in TreeShapes(n) :
       \E a \in [1..n -> NodeAttributes] :
          tree_arg = [parent |-> p, children |-> ChildrenOf(p), attr |-> a]
    /\ tree_before = tree_arg
    /\ tree_copy = <<>>
    /\ tree_ref = "arg"
    /\ tool_inplace \in BOOLEAN
    /\ loss_nodes = <<>>
    /\ walk_idx = 1
    /\ current_del = 0
    /\ leaf_order = <<>>
    /\ rct_args = <<>>
    /\ tool_result = <<>>
    /\ pc = "phylo_tree_attributes"

\* the tree a call of PhyloTreeTools returned
ReturnedTree ==
    IF tool_result[2] = "copy" THEN tree_copy ELSE tree_arg

ToolReturned(f) ==
    /\ tool = f
    /\ pc = "done"
    /\ tool_result # <<>>
    /\ tool_result[1] = "return"

\* C12: after phylo_tree_attributes every node has all six attributes, an
\* attribute the node lacked has the default value, and an attribute the
\* node had keeps its value.
C12_AttributesCompleted ==
    ToolReturned("phylo_tree_attributes") =>
        \A v \in DOMAIN ReturnedTree.parent : \A key \in AttributeKeys :
            ReturnedTree.attr[v][key] =
                IF hasattr(tree_before, v, key)
                THEN tree_before.attr[v][key]
                ELSE default_attributes[key]

-----------------------------------------------------------------------------
(* PhyloTreeTools.delete_and_reconnect and delete_losses_and_contract *)

\* Tree.delete_and_reconnect(node) of the tree container: node leaves the
\* tree and its children are appended to the children list of its parent
Reconnect(t, node) ==
    LET p    == t.parent[node]
        rest == (DOMAIN t.parent) \ {node}
    IN  [parent   |-> [v \in rest |->
                          IF t.parent[v] = node THEN p ELSE t.parent[v]],
         children |-> [v \in rest |->
                          IF v = p
                          THEN Remove(t.children[p], node) \o t.children[node]
                          ELSE t.children[v]],
         attr     |-> [v \in rest |-> t.attr[v]]]

\* lines 139-145: what the loop does to a child of the node to be deleted
PassOn(t, node, child) ==
    LET a == t.attr[child]
        d == IF hasattr(t, node, "dist") /\ hasattr(t, child, "dist")
             THEN <<a.dist[1] + t.attr[node].dist[1]>>
             ELSE a.dist
        x == IF hasattr(t, node, "transferred") /\ t.attr[node].transferred[1] # 0
             THEN <<1>>
             ELSE a.transferred
    IN  [a EXCEPT !.dist = d, !.transferred = x]

\* a variant of lines 136-147 with add_distances=False and
\* keep_transferred=False
delete_and_reconnect_plain(t, node) ==
    IF t.parent[node] = NoNode THEN t ELSE Reconnect(t, node)

\* lines 136-147: the tree after delete_and_reconnect(tree, node,
\* add_distances=True, keep_transferred=True)
delete_and_reconnect(t, node) ==
    IF t.parent[node] = NoNode THEN t
    ELSE Reconnect([t EXCEPT !.attr =
                       [v \in DOMAIN t.attr |->
                           IF t.parent[v] = node THEN PassOn(t, node, v)
                           ELSE t.attr[v]]],
                   node)

\* lines 136-137 and 147: the value delete_and_reconnect returns, the parent
\* of the node or False (here 0)
DeletedFrom(t, node) == t.parent[node]

\* lines 617: not node.children and node.event == 'L'
IsLossLeaf(t, node) ==
    /\ t.children[node] = <<>>
    /\ t.attr[node].event = <<"L">>

\* a variant of line 626 that contracts a node only when it has no child
ContractsChildless(t, node) ==
    /\ Len(t.children[node]) < 1
    /\ t.parent[node] # NoNode

\* line 626: len(current.children) < 2 and current.parent
Contracts(t, node) ==
    /\ Len(t.children[node]) < 2
    /\ t.parent[node] # NoNode

\* lines 612-618
DeleteLossesEnter ==
    /\ pc = "delete_losses_and_contract"
    /\ CopyUnlessInplace
    /\ loss_nodes' = SelectSeq(tree_postorder(tree_arg, RootOf(tree_arg)),
                               LAMBDA node : IsLossLeaf(tree_arg, node))
    /\ walk_idx' = 1
    /\ pc' = "loss_nodes_loop"
    /\ UNCHANGED <<toolFrame, current_del, tool_result>>

\* lines 621-624: the next loss node is deleted
DeleteLossNode ==
    /\ pc = "loss_nodes_loop"
    /\ walk_idx <= Len(loss_nodes)
    /\ SetToolTree(delete_and_reconnect(ToolTree, loss_nodes[walk_idx]))
    /\ current_del' = DeletedFrom(ToolTree, loss_nodes[walk_idx])
    /\ pc' = "contract_loop"
    /\ UNCHANGED <<toolFrame, tree_ref, loss_nodes, walk_idx, tool_result>>

\* lines 626-629: one round of the while loop
ContractStep ==
    /\ pc = "contract_loop"
    /\ Contracts(ToolTree, current_del)
    /\ SetToolTree(delete_and_reconnect(ToolTree, current_del))
    /\ current_del' = DeletedFrom(ToolTree, current_del)
    /\ UNCHANGED <<toolFrame, tree_ref, loss_nodes, walk_idx, tool_result, pc>>

\* line 626, the condition of the while loop is false
ContractDone ==
    /\ pc = "contract_loop"
    /\ ~Contracts(ToolTree, current_del)
    /\ walk_idx' = walk_idx + 1
    /\ pc' = "loss_nodes_loop"
    /\ UNCHANGED <<toolFrame, tree_arg, tree_copy, tree_ref, loss_nodes,
                   current_del, tool_result>>

\* line 631
DeleteLossesReturn ==
    /\ pc = "loss_nodes_loop"
    /\ walk_idx > Len(loss_nodes)
    /\ tool_result' = <<"return", tree_ref>>
    /\ pc' = "done"
    /\ UNCHANGED <<toolFrame, tree_arg, tree_copy, tree_ref, loss_nodes,
                   walk_idx, current_del>>

\* the trees with n nodes in which every inner node other than the root has
\* at least two children (the root may be planted, with a single child)
PhyloShapes(n) ==
    {p \in TreeShapes(n) :
        \A u \in 2..n :
            Cardinality({v \in 1..n : p[v] = u}) # 1}

\* the attributes of the nodes of a gene tree of shape p, with the loss
\* leaves in lost and the transfer edges leading to the nodes in trans: the
\* dist of node v is v (1.0 for the root)
PhyloAttributes(p, lost, trans) ==
    [v \in DOMAIN p |->
        [label |-> <<"a">>,
         event |-> IF v \in lost THEN <<"L">>
                   ELSE IF p[v] = NoNode THEN <<"None">>
                   ELSE IF \E w \in DOMAIN p : p[w] = v THEN <<"S">>
                   ELSE <<"">>,
         reconc |-> <<2>>,
         dist |-> <<v>>,
         tstamp |-> <<NoneNum>>,
         transferred |-> IF v \in trans THEN <<1>> ELSE <<0>>]]

\* a call delete_losses_and_contract(tree, inplace=...)
InitDeleteLosses ==
    /\ NoGeneTree
    /\ tool = "delete_losses_and_contract"
    /\ \E n \in 1..MaxLossTreeNodes : \E p \in PhyloShapes(n) :
       \E lost \in SUBSET {v \in 2..n : \A w \in 1..n : p[w] # v} :
       \E trans \in SUBSET (2..n) :
          tree_arg = [parent |-> p, children |-> ChildrenOf(p),
                      attr |-> PhyloAttributes(p, lost, trans)]
    /\ tree_before = tree_arg
    /\ tree_copy = <<>>
    /\ tree_ref = "arg"
    /\ tool_inplace \in BOOLEAN
    /\ loss_nodes = <<>>
    /\ walk_idx = 1
    /\ current_del = 0
    /\ leaf_order = <<>>
    /\ rct_args = <<>>
    /\ tool_result = <<>>
    /\ pc = "delete_losses_and_contract"

-----------------------------------------------------------------------------
(* Properties of delete_losses_and_contract *)

\* the nodes on the walk from v to the root of a tree record, v included
RECURSIVE TreeAncestors(_, _)
TreeAncestors(t, v) ==
    IF v = NoNode THEN {} ELSE {v} \cup TreeAncestors(t, t.parent[v])

\* the sum of the dist values of the edges between v and the root
RECURSIVE PathSum(_, _)
PathSum(t, v) ==
    IF t.parent[v] = NoNode THEN 0
    ELSE t.attr[v].dist[1] + PathSum(t, t.parent[v])

\* the lower nodes of the edges of the original tree that the edge
\* (t.parent[v], v) of t stands for
ContractedPath(t, v) ==
    {w \in TreeAncestors(tree_before, v) :
        t.parent[v] \in TreeAncestors(tree_before, w) \ {w}}

IsTransfer(t, v) == t.attr[v].transferred[1] # 0

DeleteLossesCalled == tool = "delete_losses_and_contract"

\* C13: after delete_losses_and_contract no loss leaf remains, every node
\* but the root has no child or at least two, every leaf that was no loss
\* leaf is still there, and with inplace=False the tree handed in is as it
\* was.
C13_LossesDeletedAndContracted ==
    /\ ToolReturned("delete_losses_and_contract") =>
          /\ \A v \in DOMAIN ReturnedTree.parent :
                /\ ~IsLossLeaf(ReturnedTree, v)
                /\ ReturnedTree.parent[v] # NoNode =>
                      Len(ReturnedTree.children[v]) # 1
          /\ \A v \in DOMAIN tree_before.parent :
                (tree_before.children[v] = <<>> /\ ~IsLossLeaf(tree_before, v))
                    => v \in DOMAIN ReturnedTree.parent
    /\ (DeleteLossesCalled /\ ~tool_inplace) => tree_arg = tree_before

\* a copy was returned from which the loss leaves and a node left with
\* fewer than two children were taken out, while a leaf remained
C13_Witness ==
    /\ ToolReturned("delete_losses_and_contract")
    /\ ~tool_inplace
    /\ Len(loss_nodes) >= 1
    /\ Cardinality(DOMAIN tree_before.parent)
          > Cardinality(DOMAIN ReturnedTree.parent) + Len(loss_nodes)
    /\ Cardinality(DOMAIN ReturnedTree.parent) > 1

\* C14: after any sequence of deletions of delete_losses_and_contract, the
\* distance of every remaining node from the root is what it was, and the
\* edge to a remaining node is a transfer edge iff one of the edges of the
\* original path it stands for was a transfer edge.
C14_DistancesAndTransfersKept ==
    DeleteLossesCalled =>
        \A v \in DOMAIN ToolTree.parent :
            /\ PathSum(ToolTree, v) = PathSum(tree_before, v)
            /\ ToolTree.parent[v] # NoNode =>
                  (IsTransfer(ToolTree, v) <=>
                      \E w \in ContractedPath(ToolTree, v) :
                          IsTransfer(tree_before, w))

\* the returned tree has an edge that stands for a path of two edges, only
\* the upper one a transfer edge, and that is a transfer edge now
C14_Witness ==
    /\ ToolReturned("delete_losses_and_contract")
    /\ \E v \in DOMAIN ReturnedTree.parent :
          /\ ReturnedTree.parent[v] # NoNode
          /\ Cardinality(ContractedPath(ReturnedTree, v)) = 2
          /\ ~IsTransfer(tree_before, v)
          /\ IsTransfer(ReturnedTree, v)
          /\ ReturnedTree.attr[v].dist[1] > tree_before.attr[v].dist[1]

-----------------------------------------------------------------------------
(* PhyloTreeTools.distance_matrix.  The leaf_order argument is a record:   *)
(* given = FALSE stands for None, and list is the list handed in.          *)

\* lines 287-296: distance_dict[v]
RECURSIVE RootDistance(_, _)
RootDistance(t, v) ==
    IF t.parent[v] = NoNode THEN 0
    ELSE RootDistance(t, t.parent[v]) + t.attr[v].dist[1]

distances_from_root(t) == [v \in DOMAIN t.parent |-> RootDistance(t, v)]

\* tree.leaf_dict()[v]: the leaves below v, in sibling order
LeavesBelow(t, v) ==
    SelectSeq(tree_preorder(t, v), LAMBDA x : t.children[x] = <<>>)

\* the elements of a list
ElementsOf(list) == {list[j] : j \in DOMAIN list}

\* line 244: if leaf_order (None and the empty list are false)
IsTrue(order) == order.given /\ order.list # <<>>

\* line 245: set(leaf_order) != set(leaves[tree.root])
OrderMismatch(t, order) ==
    ElementsOf(order.list) # ElementsOf(LeavesBelow(t, RootOf(t)))

\* lines 248-251: L
OrderUsed(t, order) ==
    IF IsTrue(order) THEN order.list ELSE LeavesBelow(t, RootOf(t))

\* line 253: leaf_index = {l: i for i, l in enumerate(L)}, indices from 1
leaf_index(L) ==
    [l \in ElementsOf(L) |->
        CHOOSE j \in DOMAIN L : L[j] = l /\ \A k \in DOMAIN L : L[k] = l => k <= j]

\* the node of tree.preorder() with x and y below two of its children (the
\* node at which lines 259-267 write D[x, y])
MeetingNode(t, x, y) ==
    CHOOSE v \in DOMAIN t.parent :
        /\ \E c1 \in ElementsOf(t.children[v]) :
           \E c2 \in ElementsOf(t.children[v]) \ {c1} :
              /\ x \in ElementsOf(LeavesBelow(t, c1))
              /\ y \in ElementsOf(LeavesBelow(t, c2))

\* lines 255-267: the matrix D
MatrixOf(t, L) ==
    LET dd  == distances_from_root(t)
        ind == leaf_index(L)
    IN  [a \in DOMAIN L, b \in DOMAIN L |->
            IF \E x \in ElementsOf(L) : \E y \in ElementsOf(L) \ {x} :
                  ind[x] = a /\ ind[y] = b
            THEN LET x == CHOOSE x \in ElementsOf(L) : ind[x] = a
                     y == CHOOSE y \in ElementsOf(L) : ind[y] = b
                     v == MeetingNode(t, x, y)
                 IN  (dd[x] - dd[v]) + (dd[y] - dd[v])
            ELSE 0]

\* lines 244-247: the ValueError
DistanceMatrixRaise ==
    /\ pc = "distance_matrix"
    /\ IsTrue(leaf_order)
    /\ OrderMismatch(tree_arg, leaf_order)
    /\ tool_result' = <<"ValueError">>
    /\ pc' = "done"
    /\ UNCHANGED <<toolFrame, tree_arg, tree_copy, tree_ref, loss_nodes,
                   walk_idx, current_del>>

\* lines 241-269 without the raise
DistanceMatrixReturn ==
    /\ pc = "distance_matrix"
    /\ ~(IsTrue(leaf_order) /\ OrderMismatch(tree_arg, leaf_order))
    /\ LET L == OrderUsed(tree_arg, leaf_order)
       IN  tool_result' = <<"return", L, MatrixOf(tree_arg, L)>>
    /\ pc' = "done"
    /\ UNCHANGED <<toolFrame, tree_arg, tree_copy, tree_ref, loss_nodes,
                   walk_idx, current_del>>

\* the lists of length at most n over the set S
ListsOver(S, n) == UNION {[1..k -> S] : k \in 0..n}

\* a call distance_matrix(tree) or distance_matrix(tree, leaf_order) with a
\* list of nodes of the tree and of the node n + 1 of another tree
InitDistanceMatrix ==
    /\ NoGeneTree
    /\ tool = "distance_matrix"
    /\ \E n \in 1..MaxAttrNodes : \E p \in TreeShapes(n) :
          /\ tree_arg = [parent |-> p, children |-> ChildrenOf(p),
                         attr |-> PhyloAttributes(p, {}, {})]
          /\ leaf_order \in
                {[given |-> FALSE, list |-> <<>>]} \cup
                {[given |-> TRUE, list |-> l] :
                    l \in ListsOver(1..(n + 1), MaxOrderLen)}
    /\ tree_before = tree_arg
    /\ tree_copy = <<>>
    /\ tree_ref = "arg"
    /\ tool_inplace = TRUE
    /\ loss_nodes = <<>>
    /\ walk_idx = 1
    /\ current_del = 0
    /\ rct_args = <<>>
    /\ tool_result = <<>>
    /\ pc = "distance_matrix"

-----------------------------------------------------------------------------
(* PhyloTreeTools.random_colored_tree.  The colors argument is a record:   *)
(* kind "int" with the number, kind "list" with the list, or kind "other"  *)
(* for a value that is neither an int nor iterable (the field that does    *)
(* not go with the kind is 0 or the empty list).                           *)

\* line 405: the trees Tree.random_tree(n) can return: n leaves, every
\* inner node with at least two children
RandomTrees(n) ==
    UNION {{p \in TreeShapes(m) :
              /\ Cardinality({v \in 1..m : \A w \in 1..m : p[w] # v}) = n
              /\ \A u \in 1..m :
                    Cardinality({v \in 1..m : p[v] = u}) # 1}
           : m \in n..(2 * n - 1)}

\* lines 407-408: the list of colors
ColorList(colors) ==
    IF colors.kind = "int" THEN [j \in 1..colors.number |-> j]
    ELSE colors.list

\* lines 417-429: the colorings of the leaves that can come out
Colorings(leaves, colors, force_all_colors) ==
    {a \in [leaves -> ElementsOf(colors)] :
        force_all_colors =>
            \E first \in [DOMAIN colors -> leaves] :
                /\ \A j \in DOMAIN colors : \A k \in DOMAIN colors :
                      first[j] = first[k] => j = k
                /\ \A j \in DOMAIN colors : a[first[j]] = colors[j]}

\* lines 409-410: the TypeError
RandomColoredTreeTypeError ==
    /\ pc = "random_colored_tree"
    /\ rct_args.colors.kind = "other"
    /\ tool_result' = <<"TypeError">>
    /\ pc' = "done"
    /\ UNCHANGED <<toolFrame, tree_arg, tree_copy, tree_ref, loss_nodes,
                   walk_idx, current_del>>

\* lines 412-413: the ValueError
RandomColoredTreeValueError ==
    /\ pc = "random_colored_tree"
    /\ rct_args.colors.kind # "other"
    /\ Len(ColorList(rct_args.colors)) > rct_args.n
    /\ rct_args.force_all_colors
    /\ tool_result' = <<"ValueError">>
    /\ pc' = "done"
    /\ UNCHANGED <<toolFrame, tree_arg, tree_copy, tree_ref, loss_nodes,
                   walk_idx, current_del>>

\* lines 405-431 without a raise: the tree and the reconc of its leaves
RandomColoredTreeReturn ==
    /\ pc = "random_colored_tree"
    /\ rct_args.colors.kind # "other"
    /\ ~(Len(ColorList(rct_args.colors)) > rct_args.n /\ rct_args.force_all_colors)
    /\ \E p \in RandomTrees(rct_args.n) :
       \E a \in Colorings({v \in DOMAIN p : \A w \in DOMAIN p : p[w] # v},
                          ColorList(rct_args.colors),
                          rct_args.force_all_colors) :
          tool_result' = <<"return", [parent |-> p, children |-> ChildrenOf(p),
                                      reconc |-> a]>>
    /\ pc' = "done"
    /\ UNCHANGED <<toolFrame, tree_arg, tree_copy, tree_ref, loss_nodes,
                   walk_idx, current_del>>

\* a call random_colored_tree(n, colors, force_all_colors=...) with n > 0
InitRandomColoredTree ==
    /\ NoGeneTree
    /\ tool = "random_colored_tree"
    /\ rct_args \in
          [n : 1..MaxLeaves,
           colors : {[kind |-> "int", number |-> k, list |-> <<>>] :
                        k \in 1..(MaxLeaves + 1)}
                    \cup {[kind |-> "list", number |-> 0, list |-> <<7, 8>>],
                          [kind |-> "other", number |-> 0, list |-> <<>>]},
           force_all_colors : BOOLEAN]
    /\ tree_arg = <<>>
    /\ tree_before = <<>>
    /\ tree_copy = <<>>
    /\ tree_ref = "arg"
    /\ tool_inplace = TRUE
    /\ loss_nodes = <<>>
    /\ walk_idx = 1
    /\ current_del = 0
    /\ leaf_order = <<>>
    /\ tool_result = <<>>
    /\ pc = "random_colored_tree"

-----------------------------------------------------------------------------
(* The calls of PhyloTreeTools.py *)

InitTools ==
    \/ InitPhyloTreeAttributes
    \/ InitDeleteLosses
    \/ InitDistanceMatrix
    \/ InitRandomColoredTree

NextTools ==
    \/ PhyloTreeAttributesEnter
    \/ PhyloTreeAttributesStep
    \/ PhyloTreeAttributesReturn
    \/ DeleteLossesEnter
    \/ DeleteLossNode
    \/ ContractStep
    \/ ContractDone
    \/ DeleteLossesReturn
    \/ DistanceMatrixRaise
    \/ DistanceMatrixReturn
    \/ RandomColoredTreeTypeError
    \/ RandomColoredTreeValueError
    \/ RandomColoredTreeReturn

SpecTools == InitTools /\ [][NextTools]_vars

\* C15: distance_matrix raises ValueError, returns nothing and leaves the
\* tree as it was whenever the leaf_order handed in is not the leaf set of
\* the tree, and random_colored_tree raises ValueError and returns nothing
\* whenever force_all_colors is true and there are more colors than leaves.
C15_FailFast ==
    /\ (tool = "distance_matrix" /\ pc = "done"
            /\ leaf_order.given /\ OrderMismatch(tree_arg, leaf_order))
          => (tool_result = <<"ValueError">> /\ tree_arg = tree_before)
    /\ (tool = "random_colored_tree" /\ pc = "done"
            /\ rct_args.colors.kind # "other"
            /\ rct_args.force_all_colors
            /\ Len(ColorList(rct_args.colors)) > rct_args.n)
          => tool_result = <<"ValueError">>

-----------------------------------------------------------------------------
(* Further properties of Fitch.py *)

\* C16: the directed Fitch graph has no edge from a leaf to itself.
C16_NoSelfLoop ==
    FitchDone =>
        /\ \A x \in Leaves : ~HasEdge(x, x)
        /\ \A e \in DirectedFitch.edges : e[1] # e[2]

\* a leaf that is itself the lower end of a transfer edge has incoming
\* edges in the returned graph
C16_Witness ==
    /\ FitchDone
    /\ \E y \in Leaves :
          /\ first_transfer[y] = y
          /\ \E x \in Leaves : HasEdge(x, y)

-----------------------------------------------------------------------------
(* Properties of _divergent_rates *)

\* the outcomes of the three modes that have a positive weight:
\* conservation, subfunctionalization, neofunctionalization (either side)
ModesOf(weights) ==
    {m \in {<<"conserved", "conserved">>, <<"divergent", "divergent">>,
            <<"divergent", "conserved">>, <<"conserved", "divergent">>} :
        \/ m[1] = "conserved" /\ m[2] = "conserved" /\ weights[1] > 0
        \/ m[1] = "divergent" /\ m[2] = "divergent" /\ weights[2] > 0
        \/ m[1] # m[2] /\ weights[3] > 0}

\* C17: at every duplication node, conserved or divergent, the states of
\* the two children can be exactly the outcomes of the modes of positive
\* weight.
C17_ModesWhateverTheParent ==
    EngineAt("D") =>
        duplication_type(marked[CurrentNode], CSN_weights) = ModesOf(CSN_weights)

\* the live gene copies of the species branch of loss node u, u taken out
SurvivorsOf(u) ==
    {gene_counter[color[u]][j] : j \in DOMAIN gene_counter[color[u]]} \ {u}

\* the loss node at which the loop is leaves one copy, a divergent one
Reverts(u) ==
    /\ Cardinality(SurvivorsOf(u)) = 1
    /\ \A v \in SurvivorsOf(u) : marked[v] = "divergent"

\* an edge whose history got a second entry, by a loss reversion
Reverted(v) == parent[v] # NoNode /\ Len(rates[EdgeTo(v)]) = 2

\* C18: when a loss node is processed and leaves exactly one live copy on
\* its species branch, a divergent one, the copy becomes conserved and
\* (loss.tstamp, 1.0) is appended to the history of its incoming edge;
\* otherwise no state and no history changes.  The part of the edge after
\* the loss time then counts with rate 1.0 in the distance.
C18_LossReversion ==
    /\ [][EngineAt("L") =>
            LET u == CurrentNode
            IN  IF Reverts(u)
                THEN \A v \in SurvivorsOf(u) :
                        /\ marked' = [marked EXCEPT ![v] = "conserved"]
                        /\ rates' = [rates EXCEPT ![EdgeTo(v)] =
                                        Append(@, <<tstamp[u], 1>>)]
                ELSE marked' = marked /\ rates' = rates]_vars
    /\ [](AssignRatesReturned /\ NoAutocorrelationAsked =>
            \A v \in Nodes :
                Reverted(v) =>
                    LET h == rates[EdgeTo(v)]
                    IN  /\ h[2][2] = 1
                        /\ ReturnedDist[v] =
                              base_rate * ((h[1][1] - h[2][1]) * h[1][2]
                                           + (h[2][1] - tstamp[v]) * 1))

\* a loss has made a divergent copy conserved: the history of its edge has
\* a faster first segment and a second segment of rate 1.0 that starts at
\* the time of a loss node of the same branch
C18_Witness ==
    /\ pc = "divergent_rates"
    /\ \E v \in Nodes :
          /\ Reverted(v)
          /\ marked[v] = "conserved"
          /\ rates[EdgeTo(v)][1][2] > 1
          /\ rates[EdgeTo(v)][2][2] = 1
          /\ \E u \in Nodes :
                event[u] = "L" /\ tstamp[u] = rates[EdgeTo(v)][2][1]

\* the members of a list
Members(list) == {list[j] : j \in DOMAIN list}

\* the edge of S on which node v of the gene tree lives
BranchEdge(v) == <<S_parent[Branch(v)], Branch(v)>>

\* the rate in force on the edge to u: the last one of its history
RateInForce(u) == rates[EdgeTo(u)][Len(rates[EdgeTo(u)])][2]

\* C19: at an HGT node u with a parent, the child that is not flagged
\* transferred gets the state of u and the history <<(u.tstamp, r)>> with r
\* the rate in force on the edge to u, and takes the place of u among the
\* live copies of u's branch; the transferred child is divergent, has the
\* history <<(u.tstamp, a draw of the sampler)>> and is a live copy of the
\* recipient branch.
C19_HGTChildren ==
    [][(EngineAt("H") /\ parent[CurrentNode] # NoNode) =>
          LET u == CurrentNode
          IN  \A v \in Children(u) :
                 IF transferred[v]
                 THEN /\ marked'[v] = "divergent"
                      /\ Len(rates'[<<u, v>>]) = 1
                      /\ rates'[<<u, v>>][1][1] = tstamp[u]
                      /\ rates'[<<u, v>>][1][2] \in sampler
                      /\ v \in Members(gene_counter'[BranchEdge(v)])
                 ELSE /\ marked'[v] = marked[u]
                      /\ rates'[<<u, v>>] = <<<<tstamp[u], RateInForce(u)>>>>
                      /\ gene_counter'[color[u]] # gene_counter[color[u]]
                      /\ Members(gene_counter'[color[u]]) \ {v}
                            = Members(gene_counter[color[u]]) \ {u, v}
                      /\ v \in Members(gene_counter'[color[u]])]_vars

\* an HGT node that a loss reversion had made conserved has been processed:
\* its untransferred child is conserved and starts with the rate 1.0 of the
\* second segment of the node's edge, its transferred child is divergent
C19_Witness ==
    /\ pc = "divergent_rates"
    /\ \E u \in Nodes :
          /\ event[u] = "H"
          /\ Reverted(u)
          /\ rates[EdgeTo(u)][1][2] > 1
          /\ \E v1 \in Children(u) : \E v2 \in Children(u) :
                /\ ~transferred[v1] /\ transferred[v2]
                /\ rates[<<u, v1>>] = <<<<tstamp[u], 1>>>>
                /\ marked[v1] = "conserved"
                /\ Len(rates[<<u, v2>>]) = 1
                /\ marked[v2] = "divergent"

\* the gene tree has no duplication and no HGT node
NoDuplicationNoHGT == \A v \in Nodes : event[v] \notin {"D", "H"}

\* C20: at a node with event 'S', '' or None every child gets the state of
\* the node and one more history entry (node.tstamp, r), r = 1.0 for a
\* conserved node and a draw of the sampler for a divergent one; all nodes
\* are conserved when the loop starts, and in a gene tree without
\* duplication and HGT nodes every edge ends, without autocorrelation, with
\* dist = base_rate * (parent.tstamp - child.tstamp).
C20_SpeciationInherits ==
    /\ [][(\E e \in {"S", "", "None"} : EngineAt(e)) =>
            LET u == CurrentNode
            IN  /\ \A v \in Children(u) :
                      /\ marked'[v] = marked[u]
                      /\ \E r \in (IF marked[u] = "conserved" THEN {1} ELSE sampler) :
                            rates'[<<u, v>>] =
                                Append(rates[<<u, v>>], <<tstamp[u], r>>)
                /\ \A v \in Nodes \ Children(u) :
                      /\ marked'[v] = marked[v]
                      /\ parent[v] # NoNode => rates'[EdgeTo(v)] = rates[EdgeTo(v)]]_vars
    /\ []((pc = "divergent_rates" /\ idx = 1) =>
            \A v \in Nodes : marked[v] = "conserved")
    /\ []((AssignRatesReturned /\ NoAutocorrelationAsked /\ NoDuplicationNoHGT) =>
            \A v \in NonRoot :
                ReturnedDist[v] = base_rate * (tstamp[parent[v]] - tstamp[v]))

\* a divergent speciation node has been processed: its children are
\* divergent and their edges start with a rate drawn from the sampler
C20_Witness ==
    /\ pc = "divergent_rates"
    /\ \E u \in Nodes :
          /\ event[u] = "S"
          /\ marked[u] = "divergent"
          /\ Children(u) # {}
          /\ \A v \in Children(u) :
                /\ marked[v] = "divergent"
                /\ Len(rates[<<u, v>>]) = 1
                /\ rates[<<u, v>>][1][1] = tstamp[u]
                /\ rates[<<u, v>>][1][2] > 1

-----------------------------------------------------------------------------
(* Properties of the processing order *)

\* the position of node v in the list T_nodes
PositionOf(v) == CHOOSE j \in DOMAIN T_nodes : T_nodes[j] = v

\* no child has a larger time stamp than its parent
TimeConsistent == \A v \in NonRoot : tstamp[v] <= tstamp[parent[v]]

\* C21: for a gene tree in which no child has a larger time stamp than its
\* parent, sorted_nodes(T) lists every node once, with non-increasing time
\* stamps and every node after its parent, also for equal time stamps; so
\* when the loop is at a node, the parent of the node has been processed
\* and the edge to the node has a history entry.
C21_ParentsFirst ==
    (pc = "divergent_rates" /\ TimeConsistent) =>
        /\ Len(T_nodes) = Cardinality(Nodes)
        /\ Members(T_nodes) = Nodes
        /\ \A j \in DOMAIN T_nodes : \A k \in DOMAIN T_nodes :
              j < k => tstamp[T_nodes[j]] >= tstamp[T_nodes[k]]
        /\ \A v \in NonRoot : PositionOf(parent[v]) < PositionOf(v)
        /\ (idx <= Len(T_nodes) /\ parent[CurrentNode] # NoNode) =>
              /\ PositionOf(parent[CurrentNode]) < idx
              /\ Len(rates[EdgeTo(CurrentNode)]) >= 1
              /\ rates[EdgeTo(CurrentNode)][1][1] = tstamp[parent[CurrentNode]]

\* the loop is at a node that has the time stamp of its parent, in a tree
\* that also has two nodes of equal time stamp in different branches
C21_Witness ==
    /\ pc = "divergent_rates"
    /\ idx <= Len(T_nodes)
    /\ parent[CurrentNode] # NoNode
    /\ tstamp[CurrentNode] = tstamp[parent[CurrentNode]]
    /\ Len(rates[EdgeTo(CurrentNode)]) = 1
    /\ \E v \in NonRoot : \E w \in NonRoot \ {v} :
          parent[v] # w /\ parent[w] # v /\ tstamp[v] = tstamp[w]

-----------------------------------------------------------------------------
(* State tags and edge histories *)

\* the rate of the last history entry of the edge to v
LastRate(v) == rates[EdgeTo(v)][Len(rates[EdgeTo(v)])][2]

\* the state tag of v and the last history entry of the edge to v agree
TagAgrees(v) ==
    /\ marked[v] = "conserved" => LastRate(v) = 1
    /\ marked[v] = "divergent" => LastRate(v) \in sampler

\* the step changes the tag of v
TagChanges(v) == marked'[v] # marked[v]

\* the step appends exactly one entry to the history of the edge to v
OneEntryAppended(v) ==
    /\ parent[v] # NoNode
    /\ Len(rates'[EdgeTo(v)]) = Len(rates[EdgeTo(v)]) + 1
    /\ SubSeq(rates'[EdgeTo(v)], 1, Len(rates[EdgeTo(v)])) = rates[EdgeTo(v)]

\* C22: in _divergent_rates, after each processed node, the state tag of
\* every node whose incoming edge has a non-empty history agrees with the
\* last entry of that history (rate 1.0 for conserved, a draw of the
\* rate-increase sampler for divergent), and every step that changes the
\* tag of a node appends exactly one entry to the history of its edge.
C22_TagsFollowHistories ==
    /\ [](pc = "divergent_rates" =>
            \A v \in NonRoot : rates[EdgeTo(v)] # <<>> => TagAgrees(v))
    /\ [][(pc = "divergent_rates" /\ pc' = "divergent_rates") =>
            \A v \in Nodes : TagChanges(v) => OneEntryAppended(v)]_vars

\* all nodes are processed; one node is divergent with a drawn rate, and
\* another was divergent and is conserved again at rate 1.0
C22_Witness ==
    /\ pc = "divergent_rates"
    /\ idx > Len(T_nodes)
    /\ \E v \in NonRoot :
          /\ marked[v] = "divergent"
          /\ LastRate(v) \in sampler
          /\ \E w \in NonRoot \ {v} :
                /\ marked[w] = "conserved"
                /\ Len(rates[EdgeTo(w)]) = 2
                /\ rates[EdgeTo(w)][1][2] \in sampler
                /\ LastRate(w) = 1

====
